---- MODULE Spec2Model ----
(***************************************************************************)
(* Model of the late_format crate (src/lib.rs): the LateSubstitution trait *)
(* and its implementations for &str and String.                            *)
(*                                                                         *)
(* A Rust string is modelled as a sequence of characters, each character a *)
(* one-element TLA+ string; Utf8Len gives the number of bytes a character  *)
(* takes, so that byte offsets (str::len, the slice s[1..s.len() - 1]) are  *)
(* computed as the code computes them.                                     *)
(***************************************************************************)
EXTENDS Integers, Sequences, FiniteSets, TLC

\* template, mapping: the caller's string and HashMap binding
\* arguments, result: the parameter and the return value of the last call
\* cloned: whether the last call was given mapping.clone() rather than mapping
VARIABLES template, mapping, arguments, result, cloned, pc

vars == <<template, mapping, arguments, result, cloned, pc>>

(***************************************************************************)
(* Characters                                                              *)
(***************************************************************************)
LBrace == "{"
RBrace == "}"
Quote == "\""
\* U+00E9, a non-ASCII letter; two bytes in UTF-8.
EAcute == "U+00E9"

\* [a-zA-Z_0-9\-\.\$]
NameChars ==
    { "a","b","c","d","e","f","g","h","i","j","k","l","m",
      "n","o","p","q","r","s","t","u","v","w","x","y","z",
      "A","B","C","D","E","F","G","H","I","J","K","L","M",
      "N","O","P","Q","R","S","T","U","V","W","X","Y","Z",
      "_","0","1","2","3","4","5","6","7","8","9","-",".","$" }

\* \s (the ASCII members of the class)
Whitespace == { " ", "\t", "\n", "\r", "\f" }

\* char::len_utf8
Utf8Len(c) == IF c = EAcute THEN 2 ELSE 1

(***************************************************************************)
(* Byte-indexed string operations of std                                   *)
(***************************************************************************)
RECURSIVE ByteLen(_)
\* str::len: the length in bytes
ByteLen(s) == IF s = <<>> THEN 0 ELSE Utf8Len(Head(s)) + ByteLen(Tail(s))

\* str::is_char_boundary
IsCharBoundary(s, b) == \E k \in 0..Len(s) : ByteLen(SubSeq(s, 1, k)) = b

Ok(v) == [panic |-> FALSE, value |-> v]
Panicked == [panic |-> TRUE, value |-> <<>>]

\* s[from..to] on a str: panics unless from <= to <= len and both are
\* character boundaries
ByteSlice(s, from, to) ==
    IF from >= 0 /\ from <= to /\ to <= ByteLen(s)
       /\ IsCharBoundary(s, from) /\ IsCharBoundary(s, to)
    THEN LET a == CHOOSE k \in 0..Len(s) : ByteLen(SubSeq(s, 1, k)) = from
             b == CHOOSE k \in 0..Len(s) : ByteLen(SubSeq(s, 1, k)) = to
         IN  Ok(SubSeq(s, a + 1, b))
    ELSE Panicked

\* str::starts_with(char)
StartsWith(s, c) == s # <<>> /\ Head(s) = c

\* the string "None"
NoneStr == <<"N", "o", "n", "e">>

(***************************************************************************)
(* The regular expression                                                  *)
(*   \{ \s* ( ([a-zA-Z_0-9\-\.\$]+) | ("([^\u{22}])*") ) \s* \}            *)
(* Whitespace, name characters, the quote and the braces are pairwise      *)
(* disjoint, so every repetition has exactly one length at which the rest  *)
(* of the pattern can go on: the match starting at a given position is     *)
(* unique and the greedy run below finds it.                               *)
(***************************************************************************)
RECURSIVE SkipIn(_, _, _)
\* the position after the longest run of characters of class cls from i
SkipIn(text, i, cls) ==
    IF i <= Len(text) /\ text[i] \in cls THEN SkipIn(text, i + 1, cls) ELSE i

RECURSIVE SkipNotQuote(_, _)
\* ([^\u{22}])* : the position after the longest run of non-quote characters
SkipNotQuote(text, i) ==
    IF i <= Len(text) /\ text[i] # Quote THEN SkipNotQuote(text, i + 1) ELSE i

NoMatch == [found |-> FALSE, start |-> 0, end |-> 0, s |-> <<>>]

\* variant: the name class also takes non-ASCII letters (\w)
NameEndUnicode(text, a) == SkipIn(text, a, NameChars \cup {EAcute})

\* ([a-zA-Z_0-9\-\.\$]+) : the position after the name starting at a; a if none
NameEnd(text, a) == SkipIn(text, a, NameChars)

\* ("([^\u{22}])*") : the position after the quoted form starting at a; 0 if none
EscapedEnd(text, a) ==
    IF a <= Len(text) /\ text[a] = Quote
    THEN LET q == SkipNotQuote(text, a + 1)
         IN  IF q <= Len(text) THEN q + 1 ELSE 0
    ELSE 0

\* variant: the name may be empty (* for +)
BodyEndStar(text, a) ==
    LET n == NameEnd(text, a)
    IN  IF n >= a /\ ~(a <= Len(text) /\ text[a] = Quote) THEN n
        ELSE EscapedEnd(text, a)

\* ( name | escaped ) : the position after the body starting at a; 0 if none.
\* The name needs one character at least (+).
BodyEnd(text, a) ==
    LET n == NameEnd(text, a)
    IN  IF n > a THEN n ELSE EscapedEnd(text, a)

\* variant: the group also spans the blanks, \{(\s* ... \s*)\}
CaptureWithBlanks(text, i, a, b, c) == SubSeq(text, i + 1, c - 1)

\* capture group 1 of a match: '{' at i, body from a to b - 1, '}' at c
Capture(text, i, a, b, c) == SubSeq(text, a, b - 1)

\* The match of the pattern starting at position i, with capture group 1 in s.
MatchAt(text, i) ==
    IF i > Len(text) \/ text[i] # LBrace THEN NoMatch
    ELSE LET a == SkipIn(text, i + 1, Whitespace)
             b == BodyEnd(text, a)
             c == SkipIn(text, b, Whitespace)
         IN  IF b # 0 /\ c <= Len(text) /\ text[c] = RBrace
             THEN [found |-> TRUE, start |-> i, end |-> c,
                   s |-> Capture(text, i, a, b, c)]
             ELSE NoMatch

RECURSIVE Find(_, _)
\* the leftmost match starting at or after position from
Find(text, from) ==
    IF from > Len(text) THEN NoMatch
    ELSE IF MatchAt(text, from).found THEN MatchAt(text, from)
    ELSE Find(text, from + 1)

(***************************************************************************)
(* The replacement closure |_, s, _, _, _| { ... }                         *)
(***************************************************************************)
\* variant: a present key yields the key, not its value
LookupKey(s, args) == IF s \in DOMAIN args THEN s ELSE NoneStr

\* variant: a missing key yields the empty string (unwrap_or_default)
LookupDefault(s, args) == IF s \in DOMAIN args THEN args[s] ELSE <<>>

\* arguments.get(s).map_or("None".to_owned(), |v| v.clone())
Lookup(s, args) == IF s \in DOMAIN args THEN args[s] ELSE NoneStr

\* variant: the slice keeps the closing quote, s[1..s.len()]
ClosureKeepQuote(s, args) ==
    IF StartsWith(s, Quote)
    THEN ByteSlice(s, 1, ByteLen(s))
    ELSE Ok(Lookup(s, args))

\* variant: the slice ends one byte early, s[1..s.len() - 2]
ClosureShortSlice(s, args) ==
    IF StartsWith(s, Quote)
    THEN ByteSlice(s, 1, ByteLen(s) - 2)
    ELSE Ok(Lookup(s, args))

Closure(s, args) ==
    IF StartsWith(s, Quote)
    THEN ByteSlice(s, 1, ByteLen(s) - 1)
    ELSE Ok(Lookup(s, args))

(***************************************************************************)
(* regex_replace_all!: the text between matches is copied, each match is   *)
(* replaced by what the closure returns, the scan goes on after the match. *)
(***************************************************************************)
RECURSIVE ReplaceAllNoTail(_, _, _, _)
\* variant: the text after the last match is not appended
ReplaceAllNoTail(text, args, last, new) ==
    LET m == Find(text, last)
    IN  IF ~m.found THEN Ok(IF last = 1 THEN text ELSE new)
        ELSE LET r == Closure(m.s, args)
             IN  IF r.panic THEN Panicked
                 ELSE ReplaceAllNoTail(text, args, m.end + 1,
                                       new \o SubSeq(text, last, m.start - 1) \o r.value)

RECURSIVE ReplaceAll(_, _, _, _)
ReplaceAll(text, args, last, new) ==
    LET m == Find(text, last)
    IN  IF ~m.found THEN Ok(new \o SubSeq(text, last, Len(text)))
        ELSE LET r == Closure(m.s, args)
             IN  IF r.panic THEN Panicked
                 ELSE ReplaceAll(text, args, m.end + 1,
                                 new \o SubSeq(text, last, m.start - 1) \o r.value)

\* variant: the output is scanned again
late_substitution_Rescan(self, args) ==
    LET once == ReplaceAll(self, args, 1, <<>>)
    IN  IF once.panic THEN once ELSE ReplaceAll(once.value, args, 1, <<>>)

\* impl LateSubstitution for &str
late_substitution(self, args) == ReplaceAll(self, args, 1, <<>>)

\* impl LateSubstitution for String
late_substitution_String(self, args) == late_substitution(self, args)

(***************************************************************************)
(* Inputs                                                                  *)
(***************************************************************************)
MaxLen == 4
MaxWs == 1
MaxBody == 3
MaxPairBody == 1

Alphabet == { LBrace, RBrace, Quote, " ", "a", EAcute }

Strings(S, n) == UNION { [1..k -> S] : k \in 0..n }

\* a brace pair holding a body with blanks on each side
Braced(w1, b, w2) == <<LBrace>> \o w1 \o b \o w2 \o <<RBrace>>

\* templates: every string up to MaxLen; every brace pair holding a body of up
\* to MaxBody characters with up to MaxWs blanks on each side; every two
\* adjacent brace pairs with bodies of up to MaxPairBody characters
Templates ==
    Strings(Alphabet, MaxLen)
    \cup { Braced(w1, b, w2) :
             <<w1, b, w2>> \in Strings({" "}, MaxWs)
                               \X Strings(Alphabet, MaxBody)
                               \X Strings({" "}, MaxWs) }
    \cup { Braced(<<>>, b1, <<>>) \o Braced(<<>>, b2, <<>>) :
             <<b1, b2>> \in Strings(Alphabet, MaxPairBody)
                            \X Strings(Alphabet, MaxPairBody) }

KeyA == <<"a">>
KeyQuotedA == <<Quote, "a", Quote>>
ValX == <<"x">>
ValToken == <<LBrace, "a", RBrace>>
EmptyMap == [k \in {} |-> <<>>]

\* mappings: empty; a name with a plain value; a name whose value has token
\* syntax; a name and a key that is spelled like an escaped body
Mappings ==
    { EmptyMap,
      [k \in {KeyA} |-> ValX],
      [k \in {KeyA} |-> ValToken],
      [k \in {KeyA, KeyQuotedA} |-> IF k = KeyA THEN ValX ELSE ValToken] }

\* a HashMap binding of the caller: live with its contents, or moved out
Live(m) == [moved |-> FALSE, map |-> m]
Moved == [moved |-> TRUE, map |-> EmptyMap]

(***************************************************************************)
(* State machine: a caller holding a template and a mapping invokes        *)
(* late_substitution.  The mapping is passed by value: either the binding  *)
(* itself (moved into the call and dropped when it returns) or a clone.    *)
(***************************************************************************)
Init ==
    /\ template \in Templates
    /\ mapping \in { Live(m) : m \in Mappings }
    /\ arguments = EmptyMap
    /\ result = Ok(<<>>)
    /\ cloned = FALSE
    /\ pc = "ready"

\* variant: the mapping is taken by reference and stays with the caller
CallStrByRef(clone) ==
    /\ ~mapping.moved
    /\ arguments' = mapping.map
    /\ result' = late_substitution(template, mapping.map)
    /\ cloned' = clone
    /\ pc' = "returned"
    /\ UNCHANGED <<template, mapping>>

\* template.late_substitution(mapping) / (mapping.clone()) on a &str
CallStr(clone) ==
    /\ ~mapping.moved
    /\ arguments' = mapping.map
    /\ result' = late_substitution(template, mapping.map)
    /\ mapping' = IF clone THEN mapping ELSE Moved
    /\ cloned' = clone
    /\ pc' = "returned"
    /\ UNCHANGED template

\* the same on a String
CallString(clone) ==
    /\ ~mapping.moved
    /\ arguments' = mapping.map
    /\ result' = late_substitution_String(template, mapping.map)
    /\ mapping' = IF clone THEN mapping ELSE Moved
    /\ cloned' = clone
    /\ pc' = "returned"
    /\ UNCHANGED template

Next ==
    \/ \E clone \in BOOLEAN : CallStr(clone)
    \/ \E clone \in BOOLEAN : CallString(clone)

Spec == Init /\ [][Next]_vars

(***************************************************************************)
(* The token grammar as the documentation states it, independent of the    *)
(* matcher above.                                                          *)
(***************************************************************************)
IsName(b) == b # <<>> /\ \A i \in 1..Len(b) : b[i] \in NameChars

IsEscaped(b) ==
    /\ Len(b) >= 2
    /\ b[1] = Quote
    /\ b[Len(b)] = Quote
    /\ \A i \in 2..(Len(b) - 1) : b[i] # Quote

IsBlank(w) == \A i \in 1..Len(w) : w[i] \in Whitespace

IsBody(b) == IsName(b) \/ IsEscaped(b)

\* text[i..j] is a token whose body is text[a..b]
TokenWithBody(text, i, j, a, b) ==
    /\ 1 <= i /\ i < a /\ a <= b /\ b < j /\ j <= Len(text)
    /\ text[i] = LBrace
    /\ text[j] = RBrace
    /\ IsBlank(SubSeq(text, i + 1, a - 1))
    /\ IsBlank(SubSeq(text, b + 1, j - 1))
    /\ IsBody(SubSeq(text, a, b))

TokenAt(text, i, j) ==
    \E a \in (i + 1)..(j - 1) : \E b \in a..(j - 1) : TokenWithBody(text, i, j, a, b)

\* the body of the token text[i..j]
BodyOf(text, i, j) ==
    LET ab == CHOOSE ab \in ((i + 1)..(j - 1)) \X ((i + 1)..(j - 1)) :
                  TokenWithBody(text, i, j, ab[1], ab[2])
    IN  SubSeq(text, ab[1], ab[2])

\* the template is one token and nothing else
WholeToken == TokenAt(template, 1, Len(template))

WholeBody == BodyOf(template, 1, Len(template))

\* all tokens of the text
TokenSpans(text) ==
    { ij \in (1..Len(text)) \X (1..Len(text)) : TokenAt(text, ij[1], ij[2]) }

\* The tokens a left-to-right scan replaces: tokens that do not overlap, such
\* that every token of the text starts inside one of them (so the leftmost
\* token is taken, then the leftmost one after its end, and so on).
Scanned(text) ==
    CHOOSE S \in SUBSET TokenSpans(text) :
        /\ \A s, t \in S : s = t \/ s[2] < t[1] \/ t[2] < s[1]
        /\ \A t \in TokenSpans(text) : \E s \in S : s[1] <= t[1] /\ t[1] <= s[2]

\* what the substitution rule puts in the place of the token text[i..j]
Replacement(text, i, j, args) ==
    LET b == BodyOf(text, i, j)
    IN  IF IsEscaped(b) THEN SubSeq(b, 2, Len(b) - 1)
        ELSE IF b \in DOMAIN args THEN args[b]
        ELSE NoneStr

RECURSIVE Render(_, _, _, _, _)
\* the output for text[i..n]: the tokens in toks replaced, the rest copied
Render(text, args, toks, i, n) ==
    IF i > n THEN <<>>
    ELSE IF \E s \in toks : s[1] = i
    THEN LET s == CHOOSE s \in toks : s[1] = i
         IN  Replacement(text, s[1], s[2], args)
                 \o Render(text, args, toks, s[2] + 1, n)
    ELSE <<text[i]>> \o Render(text, args, toks, i + 1, n)

\* the number of output characters that come from text[1..i-1]
OutBefore(text, args, toks, i) == Len(Render(text, args, toks, 1, i - 1))

\* position i lies inside a token of toks, after its opening brace
InsideToken(toks, i) == \E s \in toks : s[1] < i /\ i <= s[2]

\* text[i..j] runs from an opening brace to the nearest closing brace
Region(text, i, j) ==
    /\ 1 <= i /\ i < j /\ j <= Len(text)
    /\ text[i] = LBrace
    /\ text[j] = RBrace
    /\ \A k \in (i + 1)..(j - 1) : text[k] # RBrace

\* The region text[i..j] is ill-formed in one of the ways listed: its body
\* (the contents without the blanks around them) is empty, or is unquoted and
\* has a character that no name has, or opens a quote that nothing closes.
IllFormed(text, i, j) ==
    LET a == SkipIn(text, i + 1, Whitespace)
    IN  /\ Region(text, i, j)
        /\ \/ a = j
           \/ /\ a < j
              /\ text[a] # Quote
              /\ \E k \in a..(j - 1) :
                    /\ text[k] \notin NameChars
                    /\ \E l \in k..(j - 1) : text[l] \notin Whitespace
           \/ /\ a < j
              /\ text[a] = Quote
              /\ \A k \in (a + 1)..Len(text) : text[k] # Quote

\* out holds seg somewhere
Occurs(seg, out) ==
    \E p \in 0..(Len(out) - Len(seg)) : SubSeq(out, p + 1, p + Len(seg)) = seg

Returned == pc = "returned"

(***************************************************************************)
(* Claims                                                                  *)
(***************************************************************************)

\* C1: for a name k that is a key of the mapping, the template "{" + k + "}"
\* gives exactly the value the mapping holds for k.
C1_PresentKeyGivesValue ==
    \A k \in DOMAIN arguments :
        (Returned /\ IsName(k) /\ template = Braced(<<>>, k, <<>>))
            => result = Ok(arguments[k])

C1_Witness ==
    /\ Returned
    /\ template = Braced(<<>>, KeyA, <<>>)
    /\ KeyA \in DOMAIN arguments
    /\ result = Ok(ValX)

\* C2: for a name k that is not a key of the mapping, the template
\* "{" + k + "}" gives the string "None" and the call does not fail.
C2_MissingKeyGivesNone ==
    LET k == SubSeq(template, 2, Len(template) - 1)
    IN  (Returned /\ template = Braced(<<>>, k, <<>>) /\ IsName(k)
         /\ k \notin DOMAIN arguments)
            => result = Ok(NoneStr)

C2_Witness ==
    /\ Returned
    /\ template = Braced(<<>>, <<"a", "a">>, <<>>)
    /\ arguments # EmptyMap
    /\ result = Ok(NoneStr)

\* C3: for a string s without a double quote, the template '{"' + s + '"}'
\* gives exactly s, whatever the mapping holds.
C3_EscapedGivesLiteral ==
    LET b == SubSeq(template, 2, Len(template) - 1)
        lit == SubSeq(b, 2, Len(b) - 1)
    IN  (Returned /\ template = Braced(<<>>, b, <<>>) /\ IsEscaped(b))
            => result = Ok(lit)

\* the quoted text is a key of the mapping, and so is the quoted form itself
C3_Witness ==
    /\ Returned
    /\ template = Braced(<<>>, KeyQuotedA, <<>>)
    /\ KeyA \in DOMAIN arguments
    /\ KeyQuotedA \in DOMAIN arguments
    /\ result = Ok(KeyA)

\* C4: blanks between the braces and the body change nothing: the template
\* "{" + blanks + b + blanks + "}" gives what "{" + b + "}" gives, and the
\* blanks are not in the output.
C4_BlanksIgnored ==
    (Returned /\ WholeToken)
        => /\ result = late_substitution(Braced(<<>>, WholeBody, <<>>), arguments)
           /\ ~result.panic
           /\ IsEscaped(WholeBody)
                => result.value = SubSeq(WholeBody, 2, Len(WholeBody) - 1)
           /\ IsName(WholeBody) /\ WholeBody \in DOMAIN arguments
                => result.value = arguments[WholeBody]
           /\ IsName(WholeBody) /\ WholeBody \notin DOMAIN arguments
                => result.value = NoneStr

C4_Witness ==
    /\ Returned
    /\ template = Braced(<<" ">>, KeyA, <<" ">>)
    /\ result = Ok(ValX)

\* C5: the call returns a string for every template and every mapping; the
\* slice taken in the escaped branch is always within bounds.
C5_NeverPanics == Returned => ~result.panic

\* the empty literal, where the slice is s[1..1]
C5_Witness ==
    /\ Returned
    /\ template = <<LBrace, Quote, Quote, RBrace>>
    /\ result = Ok(<<>>)

\* C7: a template that holds no token is returned unchanged.
C7_NoTokenUnchanged ==
    (Returned /\ ~\E i, j \in 1..Len(template) : TokenAt(template, i, j))
        => result = Ok(template)

\* braces in the template, but no token
C7_Witness ==
    /\ Returned
    /\ template = <<LBrace, RBrace>>
    /\ result = Ok(template)

\* C8 as stated: a call leaves the caller's mapping as it was, so that the
\* caller can call again with it.
C8_MappingKeptByCall == [][mapping' = mapping]_vars

\* C8 amended: a call leaves the template unchanged and reads the mapping
\* it is given without changing it, but it takes the mapping by value: the
\* caller's mapping is moved out by the call, and stays with the caller only
\* when a clone is passed.
C8_MappingMovedUnlessCloned ==
    [][ /\ template' = template
        /\ arguments' = mapping.map
        /\ mapping' = IF cloned' THEN mapping ELSE Moved ]_vars

\* after a call that was given the mapping itself, the caller has none
C8_Witness == Returned /\ ~cloned /\ mapping = Moved /\ arguments # EmptyMap

\* C6: the output is the text outside the tokens, copied in order, with each
\* token of the left-to-right scan replaced by its substitution.
C6_OutputIsRendering ==
    Returned
        => result = Ok(Render(template, arguments, Scanned(template),
                              1, Len(template)))

\* two adjacent tokens, each replaced
C6_Witness ==
    /\ Returned
    /\ template = Braced(<<>>, KeyA, <<>>) \o Braced(<<>>, KeyA, <<>>)
    /\ result = Ok(ValX \o ValX)

\* C9 as stated: a region from '{' to '}' that is ill-formed appears in the
\* output unchanged.  Read at its weakest: only regions whose '{' is not
\* inside the escaped literal of a token, and found anywhere in the output.
C9_IllFormedRegionKept ==
    \A i, j \in 1..Len(template) :
        (Returned /\ IllFormed(template, i, j)
         /\ ~InsideToken(Scanned(template), i))
            => Occurs(SubSeq(template, i, j), result.value)

\* C9 amended: an ill-formed region is not matched as a token; it appears
\* in the output unchanged, at its place, when its body holds no '{' and its
\* own '{' is not inside the escaped literal of a token.
C9_IllFormedRegionKeptUnlessTokenInside ==
    \A i, j \in 1..Len(template) :
        (Returned /\ IllFormed(template, i, j))
            => LET toks == Scanned(template)
                   at == OutBefore(template, arguments, toks, i)
               IN  /\ \A s \in toks : s[1] # i
                   /\ ( /\ \A k \in (i + 1)..(j - 1) : template[k] # LBrace
                        /\ ~InsideToken(toks, i) )
                        => SubSeq(result.value, at + 1, at + (j - i + 1))
                               = SubSeq(template, i, j)

\* an ill-formed region after a token that is replaced
C9_Witness ==
    /\ Returned
    /\ template = Braced(<<>>, KeyA, <<>>) \o Braced(<<>>, <<EAcute>>, <<>>)
    /\ result = Ok(ValX \o Braced(<<>>, <<EAcute>>, <<>>))

\* C10: each replacement stands in the output as it is, also when it has
\* token syntax itself or makes a token with the text next to it.
C10_ReplacementsVerbatim ==
    Returned
        => LET toks == Scanned(template)
           IN  \A s \in toks :
                   LET at == OutBefore(template, arguments, toks, s[1])
                       rep == Replacement(template, s[1], s[2], arguments)
                   IN  SubSeq(result.value, at + 1, at + Len(rep)) = rep

\* the output of a substitution holds a token
C10_Witness ==
    /\ Returned
    /\ Scanned(template) # {}
    /\ TokenSpans(result.value) # {}

====
